---- MODULE Spec2Model ----
(***************************************************************************)
(* State-machine model of the feedforward network kernel:                  *)
(* Node / Link data model, buildNetwork, forwardProp, backProp.            *)
(*                                                                         *)
(* Conventions.                                                            *)
(*  - Sequences are 1-based: the source's network[0] is network[1] here,   *)
(*    the source's layerIdx k is layerIdx k+1 here.                        *)
(*  - Object references are arena indices: a node reference is the pair    *)
(*    <<layerIdx, i>>, a link reference is an index into `links`.          *)
(*  - A JavaScript number is modelled by an exact rational (kind "num"),   *)
(*    NaN (kind "nan") or the value undefined of a field that was never    *)
(*    assigned (kind "undef").  Rounding of IEEE doubles is not modelled.  *)
(*  - A string is a sequence of one-character strings, so that             *)
(*    concatenation and Number.toString are computed character by          *)
(*    character.                                                           *)
(*  - TANH and SIGMOID are built from Math.exp and have no exact rational  *)
(*    value; networks are built with the RELU and LINEAR activations.      *)
(***************************************************************************)
EXTENDS Integers, Sequences, FiniteSets

VARIABLES network, links, lastOp, lastInputs, lastTarget, ret, calls, backs,
          trainerOps

vars == <<network, links, lastOp, lastInputs, lastTarget, ret, calls, backs, trainerOps>>

(***************************************************************************)
(* Bounds of the model.                                                    *)
(***************************************************************************)
MaxLayers == 3
MaxNodes == 2
MaxCalls == 3
MaxTrainerOps == 1
MaxWideLayer == 11

(***************************************************************************)
(* JavaScript numbers.                                                     *)
(***************************************************************************)
Abs(x) == IF x < 0 THEN -x ELSE x

RECURSIVE GCD(_, _)
GCD(a, b) == IF b = 0 THEN a ELSE GCD(b, a % b)

Rat(n, d) ==
    LET g == GCD(Abs(n), d)
    IN  [k |-> "num", n |-> n \div g, d |-> d \div g]

Num(n) == [k |-> "num", n |-> n, d |-> 1]
NaN == [k |-> "nan", n |-> 0, d |-> 1]
Undef == [k |-> "undef", n |-> 0, d |-> 1]
Zero == Num(0)
One == Num(1)

IsNum(a) == a.k = "num"

\* a + b on numbers; undefined converts to NaN, NaN is absorbing
Add(a, b) ==
    IF IsNum(a) /\ IsNum(b)
    THEN LET g == GCD(a.d, b.d)
         IN  Rat(a.n * (b.d \div g) + b.n * (a.d \div g), (a.d \div g) * b.d)
    ELSE NaN

\* a - b
Sub(a, b) ==
    IF IsNum(a) /\ IsNum(b)
    THEN LET g == GCD(a.d, b.d)
         IN  Rat(a.n * (b.d \div g) - b.n * (a.d \div g), (a.d \div g) * b.d)
    ELSE NaN

\* a * b
Mul(a, b) ==
    IF IsNum(a) /\ IsNum(b)
    THEN LET g1 == GCD(Abs(a.n), b.d)
             g2 == GCD(Abs(b.n), a.d)
         IN  Rat((a.n \div g1) * (b.n \div g2), (a.d \div g2) * (b.d \div g1))
    ELSE NaN

\* a <= 0 ; any comparison with NaN or undefined is false
LeqZero(a) == IsNum(a) /\ a.n <= 0

(***************************************************************************)
(* Function catalog.                                                       *)
(***************************************************************************)
\* Errors.SQUARE.der
SquareDer(output, target) == Sub(output, target)

\* Activations.RELU.output : Math.max(0, x)
ReluOutput(x) == IF ~IsNum(x) THEN NaN ELSE IF x.n > 0 THEN x ELSE Zero

\* Activations.RELU.der : x <= 0 ? 0 : 1
ReluDer(x) == IF LeqZero(x) THEN Zero ELSE One

\* Activations.LINEAR.output : x => x
LinearOutput(x) == x

\* Activations.LINEAR.der : x => 1
LinearDer(x) == One

ActivationOutput(activation, x) ==
    IF activation = "RELU" THEN ReluOutput(x) ELSE LinearOutput(x)

ActivationDer(activation, x) ==
    IF activation = "RELU" THEN ReluDer(x) ELSE LinearDer(x)

(***************************************************************************)
(* Strings.                                                                *)
(***************************************************************************)
Digits == <<"0", "1", "2", "3", "4", "5", "6", "7", "8", "9">>

\* Number.prototype.toString for a positive integer
RECURSIVE toString(_)
toString(n) ==
    IF n < 10 THEN <<Digits[n + 1]>>
    ELSE toString(n \div 10) \o <<Digits[(n % 10) + 1]>>

(***************************************************************************)
(* Data model.                                                             *)
(***************************************************************************)
\* Math.random() - 0.5 lies in [-0.5, 0.5): the k-th draw of a run is taken
\* from a finite sample, the seed selecting the stream.
RandomSample == <<Rat(-1, 2), Rat(1, 4), Rat(-1, 4)>>
Seeds == {0, 1}
random(seed, k) == RandomSample[((seed + k) % Len(RandomSample)) + 1]

\* new Node(id, activation, initZero)
Node(id, activation, initZero) ==
    [id |-> id,
     inputLinks |-> <<>>,
     bias |-> IF initZero THEN Zero ELSE Rat(1, 10),
     outputLinks |-> <<>>,
     totalInput |-> Undef,
     outputs |-> <<>>,
     output |-> Undef,
     outputDer |-> Zero,
     inputDer |-> Zero,
     accInputDer |-> Zero,
     numAccumulatedDers |-> 0,
     activation |-> activation]

\* new Link(source, dest, regularization, initZero); rnd is the value of
\* Math.random() - 0.5 drawn by the field initialiser
Link(source, sourceId, dest, destId, regularization, initZero, rnd) ==
    [id |-> sourceId \o destId,
     source |-> source,
     dest |-> dest,
     weight |-> IF initZero THEN Zero ELSE rnd,
     isDead |-> FALSE,
     errorDer |-> Zero,
     accErrorDer |-> Zero,
     numAccumulatedDers |-> 0,
     regularization |-> regularization]

(***************************************************************************)
(* buildNetwork.  st = [network, links, id]; a = the call's arguments      *)
(* [networkShape, activation, outputActivation, regularization, inputIds,  *)
(*  initZero, seed].                                                       *)
(***************************************************************************)
\* buildLinks appending the link to the source's outputLinks field instead of
\* the outputs field that backProp reads
RECURSIVE buildLinks_outputLinks(_, _, _, _, _)
buildLinks_outputLinks(st, a, layerIdx, i, j) ==
    IF j > Len(st.network[layerIdx - 1]) THEN st
    ELSE LET prevNode == st.network[layerIdx - 1][j]
             node == st.network[layerIdx][i]
             l == Len(st.links) + 1
             link == Link(<<layerIdx - 1, j>>, prevNode.id, <<layerIdx, i>>, node.id,
                          a.regularization, a.initZero, random(a.seed, l))
             net == [st.network EXCEPT ![layerIdx - 1][j].outputLinks = Append(@, l),
                                       ![layerIdx][i].inputLinks = Append(@, l)]
         IN  buildLinks_outputLinks(
                 [st EXCEPT !.network = net, !.links = Append(@, link)],
                 a, layerIdx, i, j + 1)

\* for (j = 0; j < network[layerIdx - 1].length; j++) { new Link; push; push }
RECURSIVE buildLinks(_, _, _, _, _)
buildLinks(st, a, layerIdx, i, j) ==
    IF j > Len(st.network[layerIdx - 1]) THEN st
    ELSE LET prevNode == st.network[layerIdx - 1][j]
             node == st.network[layerIdx][i]
             l == Len(st.links) + 1
             link == Link(<<layerIdx - 1, j>>, prevNode.id, <<layerIdx, i>>, node.id,
                          a.regularization, a.initZero, random(a.seed, l))
             net == [st.network EXCEPT ![layerIdx - 1][j].outputs = Append(@, l),
                                       ![layerIdx][i].inputLinks = Append(@, l)]
         IN  buildLinks([st EXCEPT !.network = net, !.links = Append(@, link)],
                        a, layerIdx, i, j + 1)

\* for (i = 0; i < numNodes; i++) { ... }
RECURSIVE buildNodes(_, _, _, _)
buildNodes(st, a, layerIdx, i) ==
    IF i > a.networkShape[layerIdx] THEN st
    ELSE LET isOutputLayer == layerIdx = Len(a.networkShape)
             isInputLayer == layerIdx = 1
             nodeId == IF isInputLayer THEN a.inputIds[i] ELSE toString(st.id)
             id == IF isInputLayer THEN st.id ELSE st.id + 1
             node == Node(nodeId,
                          IF isOutputLayer THEN a.outputActivation ELSE a.activation,
                          a.initZero)
             st1 == [st EXCEPT !.network[layerIdx] = Append(@, node), !.id = id]
             st2 == IF layerIdx >= 2 THEN buildLinks(st1, a, layerIdx, i, 1) ELSE st1
         IN  buildNodes(st2, a, layerIdx, i + 1)

\* for (layerIdx = 0; layerIdx < numLayer; layerIdx++) { ... }
RECURSIVE buildLayers(_, _, _)
buildLayers(st, a, layerIdx) ==
    IF layerIdx > Len(a.networkShape) THEN st
    ELSE buildLayers(buildNodes([st EXCEPT !.network = Append(@, <<>>)], a, layerIdx, 1),
                     a, layerIdx + 1)

buildNetwork(a) == buildLayers([network |-> <<>>, links |-> <<>>, id |-> 1], a, 1)

(***************************************************************************)
(* Node.updateOutput.                                                      *)
(***************************************************************************)
\* for (j = 0; j < this.inputLinks.length; j++) totalInput += weight * source.output
RECURSIVE sumInputs(_, _, _, _, _)
sumInputs(net, lks, node, j, totalInput) ==
    IF j > Len(node.inputLinks) THEN totalInput
    ELSE LET link == lks[node.inputLinks[j]]
             source == net[link.source[1]][link.source[2]]
         IN  sumInputs(net, lks, node, j + 1,
                       Add(totalInput, Mul(link.weight, source.output)))

\* updateOutput starting the sum at 0 instead of the bias
updateOutput_noBias(net, lks, layerIdx, i) ==
    LET node == net[layerIdx][i]
        totalInput == sumInputs(net, lks, node, 1, Zero)
    IN  [node EXCEPT !.totalInput = totalInput,
                     !.output = ActivationOutput(node.activation, totalInput)]

\* updateOutput clearing the node's derivatives as it recomputes the output
updateOutput_clearDer(net, lks, layerIdx, i) ==
    LET node == net[layerIdx][i]
        totalInput == sumInputs(net, lks, node, 1, node.bias)
    IN  [node EXCEPT !.totalInput = totalInput,
                     !.output = ActivationOutput(node.activation, totalInput),
                     !.outputDer = Zero,
                     !.inputDer = Zero]

\* the node <<layerIdx, i>> after updateOutput()
updateOutput(net, lks, layerIdx, i) ==
    LET node == net[layerIdx][i]
        totalInput == sumInputs(net, lks, node, 1, node.bias)
    IN  [node EXCEPT !.totalInput = totalInput,
                     !.output = ActivationOutput(node.activation, totalInput)]

(***************************************************************************)
(* forwardProp.                                                            *)
(***************************************************************************)
\* for (i = 0; i < inputLayer.length; i++) node.output = inputs[i]
RECURSIVE forwardInputs(_, _, _)
forwardInputs(net, inputs, i) ==
    IF i > Len(net[1]) THEN net
    ELSE forwardInputs([net EXCEPT ![1][i].output = inputs[i]], inputs, i + 1)

\* for (i = 0; i < currentLayer.length; i++) node.updateOutput()
RECURSIVE forwardNodes(_, _, _, _)
forwardNodes(net, lks, layerIdx, i) ==
    IF i > Len(net[layerIdx]) THEN net
    ELSE forwardNodes([net EXCEPT ![layerIdx][i] = updateOutput(net, lks, layerIdx, i)],
                      lks, layerIdx, i + 1)

\* for (layerIdx = 1; layerIdx < network.length; layerIdx++)
RECURSIVE forwardLayers(_, _, _)
forwardLayers(net, lks, layerIdx) ==
    IF layerIdx > Len(net) THEN net
    ELSE forwardLayers(forwardNodes(net, lks, layerIdx, 1), lks, layerIdx + 1)

\* the input layer written up to the shorter of the two lengths
RECURSIVE forwardInputs_partial(_, _, _)
forwardInputs_partial(net, inputs, i) ==
    IF i > Len(net[1]) \/ i > Len(inputs) THEN net
    ELSE forwardInputs_partial([net EXCEPT ![1][i].output = inputs[i]], inputs, i + 1)

\* forwardProp checking the length after it has written the input layer
forwardProp_checkLate(net, lks, inputs) ==
    IF Len(inputs) # Len(net[1])
    THEN [threw |-> TRUE, network |-> forwardInputs_partial(net, inputs, 1),
          value |-> Undef]
    ELSE LET out == forwardLayers(forwardInputs(net, inputs, 1), lks, 2)
         IN  [threw |-> FALSE, network |-> out, value |-> out[Len(out)][1].output]

\* the outcome of forwardProp(network, inputs): whether it threw, the
\* network it leaves, the value it returns
forwardProp(net, lks, inputs) ==
    IF Len(inputs) # Len(net[1])
    THEN [threw |-> TRUE, network |-> net, value |-> Undef]
    ELSE LET out == forwardLayers(forwardInputs(net, inputs, 1), lks, 2)
         IN  [threw |-> FALSE, network |-> out, value |-> out[Len(out)][1].output]

(***************************************************************************)
(* backProp.  st = [network, links].                                       *)
(***************************************************************************)
\* the first loop assigning the accumulator instead of adding to it
RECURSIVE backInputDers_overwrite(_, _, _)
backInputDers_overwrite(st, layerIdx, i) ==
    IF i > Len(st.network[layerIdx]) THEN st
    ELSE LET node == st.network[layerIdx][i]
             inputDer == Mul(node.outputDer,
                             ActivationDer(node.activation, node.totalInput))
         IN  backInputDers_overwrite(
                 [st EXCEPT !.network[layerIdx][i].inputDer = inputDer,
                            !.network[layerIdx][i].accInputDer = inputDer,
                            !.network[layerIdx][i].numAccumulatedDers = @ + 1],
                 layerIdx, i + 1)

\* first loop over currentLayer: inputDer, accInputDer, numAccumulatedDers
RECURSIVE backInputDers(_, _, _)
backInputDers(st, layerIdx, i) ==
    IF i > Len(st.network[layerIdx]) THEN st
    ELSE LET node == st.network[layerIdx][i]
             inputDer == Mul(node.outputDer,
                             ActivationDer(node.activation, node.totalInput))
         IN  backInputDers(
                 [st EXCEPT !.network[layerIdx][i].inputDer = inputDer,
                            !.network[layerIdx][i].accInputDer = Add(@, inputDer),
                            !.network[layerIdx][i].numAccumulatedDers = @ + 1],
                 layerIdx, i + 1)

\* the link loop multiplying by the destination's output instead of the source's
RECURSIVE backNodeLinks_destOutput(_, _, _, _)
backNodeLinks_destOutput(st, layerIdx, i, j) ==
    LET node == st.network[layerIdx][i]
    IN  IF j > Len(node.inputLinks) THEN st
        ELSE LET l == node.inputLinks[j]
                 link == st.links[l]
                 errorDer == Mul(node.inputDer, node.output)
             IN  IF link.isDead
                 THEN backNodeLinks_destOutput(st, layerIdx, i, j + 1)
                 ELSE backNodeLinks_destOutput(
                          [st EXCEPT !.links[l].errorDer = errorDer,
                                     !.links[l].accErrorDer = Add(@, errorDer),
                                     !.links[l].numAccumulatedDers = @ + 1],
                          layerIdx, i, j + 1)

\* the link loop without the isDead test
RECURSIVE backNodeLinks_noDeadCheck(_, _, _, _)
backNodeLinks_noDeadCheck(st, layerIdx, i, j) ==
    LET node == st.network[layerIdx][i]
    IN  IF j > Len(node.inputLinks) THEN st
        ELSE LET l == node.inputLinks[j]
                 link == st.links[l]
                 source == st.network[link.source[1]][link.source[2]]
                 errorDer == Mul(node.inputDer, source.output)
             IN  backNodeLinks_noDeadCheck(
                     [st EXCEPT !.links[l].errorDer = errorDer,
                                !.links[l].accErrorDer = Add(@, errorDer),
                                !.links[l].numAccumulatedDers = @ + 1],
                     layerIdx, i, j + 1)

\* for (j = 0; j < node.inputLinks.length; j++) { if (link.isDead) continue; ... }
RECURSIVE backNodeLinks(_, _, _, _)
backNodeLinks(st, layerIdx, i, j) ==
    LET node == st.network[layerIdx][i]
    IN  IF j > Len(node.inputLinks) THEN st
        ELSE LET l == node.inputLinks[j]
                 link == st.links[l]
                 source == st.network[link.source[1]][link.source[2]]
                 errorDer == Mul(node.inputDer, source.output)
             IN  IF link.isDead
                 THEN backNodeLinks(st, layerIdx, i, j + 1)
                 ELSE backNodeLinks(
                          [st EXCEPT !.links[l].errorDer = errorDer,
                                     !.links[l].accErrorDer = Add(@, errorDer),
                                     !.links[l].numAccumulatedDers = @ + 1],
                          layerIdx, i, j + 1)

\* second loop over currentLayer: error derivative of each input weight
RECURSIVE backErrorDers(_, _, _)
backErrorDers(st, layerIdx, i) ==
    IF i > Len(st.network[layerIdx]) THEN st
    ELSE backErrorDers(backNodeLinks(st, layerIdx, i, 1), layerIdx, i + 1)

\* for (j = 0; j < node.outputs.length; j++) outputDer += weight * dest.inputDer
RECURSIVE sumOutputDer(_, _, _, _)
sumOutputDer(st, node, j, outputDer) ==
    IF j > Len(node.outputs) THEN outputDer
    ELSE LET output == st.links[node.outputs[j]]
             dest == st.network[output.dest[1]][output.dest[2]]
         IN  sumOutputDer(st, node, j + 1,
                          Add(outputDer, Mul(output.weight, dest.inputDer)))

\* loop over prevLayer: node.outputDer = 0; then the sum over node.outputs
RECURSIVE backOutputDers(_, _, _)
backOutputDers(st, prevIdx, i) ==
    IF i > Len(st.network[prevIdx]) THEN st
    ELSE backOutputDers(
             [st EXCEPT !.network[prevIdx][i].outputDer =
                            sumOutputDer(st, st.network[prevIdx][i], 1, Zero)],
             prevIdx, i + 1)

\* the test comparing with the input layer's index: the first hidden layer
\* then propagates outputDer into the input layer
isFirstHiddenLayer_offByOne(layerIdx) == layerIdx = 1

\* the source's layerIdx === 1 is layerIdx = 2 here
isFirstHiddenLayer(layerIdx) == layerIdx = 2

\* the layer body propagating into the previous layer before the current
\* layer's inputDer is recomputed
backLayer_staleOrder(st, layerIdx) ==
    LET st0 == IF isFirstHiddenLayer(layerIdx) THEN st
               ELSE backOutputDers(st, layerIdx - 1, 1)
        st1 == backInputDers(st0, layerIdx, 1)
    IN  backErrorDers(st1, layerIdx, 1)

\* the body of the layer loop for one layer
backLayer(st, layerIdx) ==
    LET st1 == backInputDers(st, layerIdx, 1)
        st2 == backErrorDers(st1, layerIdx, 1)
    IN  IF isFirstHiddenLayer(layerIdx) THEN st2
        ELSE backOutputDers(st2, layerIdx - 1, 1)

\* the source's loop bound layerIdx >= 1 is layerIdx >= 2 here
firstBackLayer == 2

\* for (layerIdx = network.length - 1; layerIdx >= 1; layerIdx--)
RECURSIVE backLayers(_, _)
backLayers(st, layerIdx) ==
    IF layerIdx < firstBackLayer THEN st
    ELSE backLayers(backLayer(st, layerIdx), layerIdx - 1)

\* outputNode.outputDer = errorFunc.der(outputNode.output, target)
backSeed(net, target) ==
    LET last == Len(net)
    IN  [net EXCEPT ![last][1].outputDer = SquareDer(net[last][1].output, target)]

\* the network and links backProp(network, target, Errors.SQUARE) leaves
backProp(net, lks, target) ==
    backLayers([network |-> backSeed(net, target), links |-> lks], Len(net))

(***************************************************************************)
(* Arguments the callers pass.                                             *)
(***************************************************************************)
Activations == {"RELU", "LINEAR"}
Regularizations == {"L2"}

\* layer-size sequences of positive sizes
Shapes == UNION {[1..n -> 1..MaxNodes] : n \in 1..MaxLayers}

\* the id list of the input layer: x1, x2, ...
InputIds(n) == [i \in 1..n |-> <<"x">> \o toString(i)]

BuildArgs ==
    {[networkShape |-> shape, activation |-> act, outputActivation |-> outAct,
      regularization |-> reg, inputIds |-> InputIds(shape[1]),
      initZero |-> z, seed |-> seed] :
        shape \in Shapes, act \in Activations, outAct \in Activations,
        reg \in Regularizations, z \in BOOLEAN, seed \in Seeds}

InputVals == {5, -1}
InputVector(n, v) == [i \in 1..n |-> Num(v + i - 1)]
InputVectors == {InputVector(n, v) : n \in 0..(MaxNodes + 1), v \in InputVals}

Targets == {0, 1}

\* values the trainer writes
TrainerWeight == Num(2)
TrainerBias == Num(1)

(***************************************************************************)
(* The state machine.                                                      *)
(***************************************************************************)
Init ==
    /\ network = <<>>
    /\ links = <<>>
    /\ lastOp = "none"
    /\ lastInputs = <<>>
    /\ lastTarget = Zero
    /\ ret = Undef
    /\ calls = 0
    /\ backs = 0
    /\ trainerOps = 0

Built == lastOp # "none"

\* network = buildNetwork(...)
BuildNetwork ==
    /\ ~Built
    /\ \E a \in BuildArgs :
         LET st == buildNetwork(a)
         IN  /\ network' = st.network
             /\ links' = st.links
    /\ lastOp' = "buildNetwork"
    /\ UNCHANGED <<lastInputs, lastTarget, ret, calls, backs, trainerOps>>

\* forwardProp(network, inputs)
ForwardProp ==
    /\ Built
    /\ calls < MaxCalls
    /\ \E inputs \in InputVectors :
         LET out == forwardProp(network, links, inputs)
         IN  /\ network' = out.network
             /\ ret' = out.value
             /\ lastOp' = IF out.threw THEN "forwardPropThrew" ELSE "forwardProp"
             /\ lastInputs' = inputs
    /\ calls' = calls + 1
    /\ UNCHANGED <<links, lastTarget, backs, trainerOps>>

\* backProp(network, target, Errors.SQUARE)
BackProp ==
    /\ Built
    /\ calls < MaxCalls
    /\ \E t \in Targets :
         LET st == backProp(network, links, Num(t))
         IN  /\ network' = st.network
             /\ links' = st.links
             /\ lastTarget' = Num(t)
    /\ lastOp' = "backProp"
    /\ calls' = calls + 1
    /\ backs' = backs + 1
    /\ UNCHANGED <<lastInputs, ret, trainerOps>>

\* the external trainer sets weights and biases
TrainerSetParams ==
    /\ Built
    /\ trainerOps < MaxTrainerOps
    /\ links' = [l \in 1..Len(links) |-> [links[l] EXCEPT !.weight = TrainerWeight]]
    /\ network' = [k \in 1..Len(network) |->
                     [i \in 1..Len(network[k]) |->
                        IF k = 1 THEN network[k][i]
                        ELSE [network[k][i] EXCEPT !.bias = TrainerBias]]]
    /\ lastOp' = "trainer"
    /\ trainerOps' = trainerOps + 1
    /\ UNCHANGED <<lastInputs, lastTarget, ret, calls, backs>>

\* the external trainer resets the accumulators
TrainerReset ==
    /\ Built
    /\ trainerOps < MaxTrainerOps
    /\ links' = [l \in 1..Len(links) |->
                   [links[l] EXCEPT !.accErrorDer = Zero, !.numAccumulatedDers = 0]]
    /\ network' = [k \in 1..Len(network) |->
                     [i \in 1..Len(network[k]) |->
                        [network[k][i] EXCEPT !.accInputDer = Zero,
                                              !.numAccumulatedDers = 0]]]
    /\ lastOp' = "trainer"
    /\ trainerOps' = trainerOps + 1
    /\ backs' = 0
    /\ UNCHANGED <<lastInputs, lastTarget, ret, calls>>

\* the external trainer marks a link dead
TrainerSetDead ==
    /\ Built
    /\ trainerOps < MaxTrainerOps
    /\ \E l \in 1..Len(links) :
         /\ ~links[l].isDead
         /\ links' = [links EXCEPT ![l].isDead = TRUE]
    /\ lastOp' = "trainer"
    /\ trainerOps' = trainerOps + 1
    /\ UNCHANGED <<network, lastInputs, lastTarget, ret, calls, backs>>

Next ==
    \/ BuildNetwork
    \/ ForwardProp
    \/ BackProp
    \/ TrainerSetParams
    \/ TrainerReset
    \/ TrainerSetDead

Spec == Init /\ [][Next]_vars

(***************************************************************************)
(* Construction alone.                                                     *)
(***************************************************************************)
NextBuild == BuildNetwork

SpecBuild == Init /\ [][NextBuild]_vars

(***************************************************************************)
(* Construction alone, over wide layers and arbitrary distinct input ids.  *)
(***************************************************************************)
IdPool == {<<"a">>, <<"a", "1">>, <<"x">>}

\* id lists of length n with pairwise-distinct entries
DistinctIds(n) ==
    {ids \in [1..n -> IdPool] : \A i, j \in 1..n : i # j => ids[i] # ids[j]}

WideArgs ==
    UNION {{[networkShape |-> <<n0, n1>>, activation |-> act,
             outputActivation |-> "LINEAR", regularization |-> reg,
             inputIds |-> ids, initZero |-> TRUE, seed |-> 0] :
               n1 \in 1..MaxWideLayer, act \in Activations,
               reg \in Regularizations, ids \in DistinctIds(n0)} : n0 \in 1..2}

\* network = buildNetwork(...) with a wide hidden layer
BuildNetworkWide ==
    /\ ~Built
    /\ \E a \in WideArgs :
         LET st == buildNetwork(a)
         IN  /\ network' = st.network
             /\ links' = st.links
    /\ lastOp' = "buildNetwork"
    /\ UNCHANGED <<lastInputs, lastTarget, ret, calls, backs, trainerOps>>

NextIds == BuildNetworkWide

SpecIds == Init /\ [][NextIds]_vars

(***************************************************************************)
(* Vocabulary of the properties.                                           *)
(***************************************************************************)
\* the references of the nodes of a network
RefsOf(net) == UNION {{<<k, i>> : i \in 1..Len(net[k])} : k \in 1..Len(net)}

Refs == RefsOf(network)
NodeAt(r) == network[r[1]][r[2]]
LinkIds == 1..Len(links)

\* number of positions of sequence q holding x
Count(q, x) == Cardinality({p \in 1..Len(q) : q[p] = x})

\* the sum of a sequence of numbers
RECURSIVE SeqSum(_)
SeqSum(q) == IF q = <<>> THEN Zero ELSE Add(Head(q), SeqSum(Tail(q)))

\* bias + sum over the incoming links of weight * source.output, in state (net, lks)
WeightedInput(net, lks, r) ==
    LET node == net[r[1]][r[2]]
    IN  Add(node.bias,
            SeqSum([j \in 1..Len(node.inputLinks) |->
                       Mul(lks[node.inputLinks[j]].weight,
                           net[lks[node.inputLinks[j]].source[1]]
                              [lks[node.inputLinks[j]].source[2]].output)]))

\* sum over the outgoing links of weight * dest.inputDer, in state (net, lks)
BackSum(net, lks, r) ==
    LET node == net[r[1]][r[2]]
    IN  SeqSum([j \in 1..Len(node.outputs) |->
                   Mul(lks[node.outputs[j]].weight,
                       net[lks[node.outputs[j]].dest[1]]
                          [lks[node.outputs[j]].dest[2]].inputDer)])

\* the step is a call of forwardProp / of backProp
IsForwardStep == lastOp' \in {"forwardProp", "forwardPropThrew"} /\ calls' = calls + 1
IsBackStep == lastOp' = "backProp" /\ calls' = calls + 1

\* the 1-input 1-output LINEAR/LINEAR network with weight 2 and bias 1
IsExampleNetwork ==
    /\ Len(network) = 2 /\ Len(network[1]) = 1 /\ Len(network[2]) = 1
    /\ network[2][1].activation = "LINEAR"
    /\ network[2][1].bias = Num(1)
    /\ links[1].weight = Num(2)

(***************************************************************************)
(* C1.  forwardProp called with an input vector whose length differs from  *)
(* the number of nodes of the input layer throws, and the failed call      *)
(* leaves every field of every node and link as it was.                    *)
(***************************************************************************)
C1_MismatchThrowsUnchanged ==
    [][(IsForwardStep /\ Len(lastInputs') # Len(network[1]))
          => (lastOp' = "forwardPropThrew" /\ network' = network /\ links' = links)]_vars

\* a failed call with a non-empty vector on a network that has been built
C1_Witness ==
    /\ lastOp = "forwardPropThrew"
    /\ Len(lastInputs) # Len(network[1])
    /\ Len(lastInputs) > 0

(***************************************************************************)
(* C2.  In a built network: input-layer nodes have no incoming link; a     *)
(* node of layer k >= 1 has exactly one incoming link from each node of    *)
(* layer k-1 and none from another layer; every link occurs exactly once   *)
(* in its source's outgoing list and exactly once in its destination's     *)
(* incoming list, and the lists hold only such links.                      *)
(***************************************************************************)
C2_LayeredWiring ==
    Built =>
      /\ \A r \in Refs : r[1] = 1 => NodeAt(r).inputLinks = <<>>
      /\ \A r \in Refs : r[1] >= 2 =>
           /\ Len(NodeAt(r).inputLinks) = Len(network[r[1] - 1])
           /\ \A p \in 1..Len(NodeAt(r).inputLinks) :
                /\ NodeAt(r).inputLinks[p] \in LinkIds
                /\ links[NodeAt(r).inputLinks[p]].source[1] = r[1] - 1
                /\ links[NodeAt(r).inputLinks[p]].dest = r
           /\ \A j \in 1..Len(network[r[1] - 1]) :
                Cardinality({p \in 1..Len(NodeAt(r).inputLinks) :
                               links[NodeAt(r).inputLinks[p]].source = <<r[1] - 1, j>>}) = 1
      /\ \A r \in Refs :
           \A p \in 1..Len(NodeAt(r).outputs) :
              /\ NodeAt(r).outputs[p] \in LinkIds
              /\ links[NodeAt(r).outputs[p]].source = r
      /\ \A l \in LinkIds :
           /\ links[l].source \in Refs /\ links[l].dest \in Refs
           /\ Count(NodeAt(links[l].source).outputs, l) = 1
           /\ Count(NodeAt(links[l].dest).inputLinks, l) = 1
           /\ \A r \in Refs :
                /\ r # links[l].source => Count(NodeAt(r).outputs, l) = 0
                /\ r # links[l].dest => Count(NodeAt(r).inputLinks, l) = 0

\* a freshly built network with two layers of links and a layer of two nodes
C2_Witness ==
    /\ lastOp = "buildNetwork"
    /\ Len(network) = 3
    /\ Len(network[2]) = 2
    /\ Len(links) >= 4

(***************************************************************************)
(* C3.  After a successful forwardProp(network, inputs): every input-layer *)
(* node's output is the corresponding input; every later node has          *)
(* totalInput = bias + sum of weight * source.output over its incoming     *)
(* links, with the outputs of this pass, and output =                      *)
(* activation(totalInput); the call returns the output of node 0 of the    *)
(* last layer.  On the example network input 5 returns 11.                 *)
(***************************************************************************)
C3_ForwardResult ==
    lastOp = "forwardProp" =>
      /\ Len(lastInputs) = Len(network[1])
      /\ \A r \in Refs : r[1] = 1 => NodeAt(r).output = lastInputs[r[2]]
      /\ \A r \in Refs : r[1] >= 2 =>
           /\ NodeAt(r).totalInput = WeightedInput(network, links, r)
           /\ NodeAt(r).output =
                ActivationOutput(NodeAt(r).activation, NodeAt(r).totalInput)
      /\ ret = network[Len(network)][1].output
      /\ (IsExampleNetwork /\ lastInputs = <<Num(5)>>) => ret = Num(11)

\* the example: weight 2, bias 1, input 5 has returned 11
C3_Witness ==
    /\ lastOp = "forwardProp"
    /\ IsExampleNetwork
    /\ lastInputs = <<Num(5)>>
    /\ ret = Num(11)

(***************************************************************************)
(* C4.  After backProp(network, target, SQUARE): the output node has       *)
(* outputDer = output - target; every non-input node has inputDer =        *)
(* outputDer * activation.der(totalInput); every non-dead incoming link of *)
(* a non-input node has errorDer = inputDer(dest) * source.output.  On the *)
(* example network after forwardProp([5]) and target 0: outputDer 11,      *)
(* inputDer 11, errorDer 55, and the first accumulation leaves the         *)
(* accumulators at 11 and 55 with numAccumulatedDers 1.                    *)
(***************************************************************************)
C4_BackwardResult ==
    lastOp = "backProp" =>
      /\ network[Len(network)][1].outputDer =
           Sub(network[Len(network)][1].output, lastTarget)
      /\ \A r \in Refs : r[1] >= 2 =>
           NodeAt(r).inputDer =
             Mul(NodeAt(r).outputDer,
                 ActivationDer(NodeAt(r).activation, NodeAt(r).totalInput))
      /\ \A l \in LinkIds : ~links[l].isDead =>
           links[l].errorDer =
             Mul(NodeAt(links[l].dest).inputDer, NodeAt(links[l].source).output)
      /\ (IsExampleNetwork /\ network[1][1].output = Num(5)
            /\ network[2][1].output = Num(11) /\ lastTarget = Zero
            /\ ~links[1].isDead) =>
           /\ network[2][1].outputDer = Num(11)
           /\ network[2][1].inputDer = Num(11)
           /\ links[1].errorDer = Num(55)
           /\ backs = 1 =>
                /\ network[2][1].accInputDer = Num(11)
                /\ network[2][1].numAccumulatedDers = 1
                /\ links[1].accErrorDer = Num(55)
                /\ links[1].numAccumulatedDers = 1

\* the example: forwardProp([5]) returned 11, then backProp with target 0
C4_Witness ==
    /\ lastOp = "backProp"
    /\ IsExampleNetwork
    /\ ret = Num(11)
    /\ lastTarget = Zero
    /\ links[1].errorDer = Num(55)
    /\ links[1].accErrorDer = Num(55)
    /\ network[2][1].numAccumulatedDers = 1

(***************************************************************************)
(* C5.  Accumulation is additive.  Every backProp call adds 1 to           *)
(* numAccumulatedDers of every non-input node and of every non-dead link,  *)
(* adds the pass's inputDer to accInputDer and the pass's errorDer to       *)
(* accErrorDer; no forwardProp or backProp call resets or decreases a      *)
(* counter; so a non-input node's counter equals the number of backProp    *)
(* calls since construction or the last external reset.                    *)
(***************************************************************************)
C5_AdditiveAccumulation ==
    [][/\ IsBackStep =>
            /\ \A r \in Refs : r[1] >= 2 =>
                 /\ network'[r[1]][r[2]].numAccumulatedDers =
                      NodeAt(r).numAccumulatedDers + 1
                 /\ network'[r[1]][r[2]].accInputDer =
                      Add(NodeAt(r).accInputDer, network'[r[1]][r[2]].inputDer)
            /\ \A l \in LinkIds : ~links[l].isDead =>
                 /\ links'[l].numAccumulatedDers = links[l].numAccumulatedDers + 1
                 /\ links'[l].accErrorDer =
                      Add(links[l].accErrorDer, links'[l].errorDer)
       /\ (IsBackStep \/ IsForwardStep) =>
            /\ \A r \in Refs :
                 network'[r[1]][r[2]].numAccumulatedDers >= NodeAt(r).numAccumulatedDers
            /\ \A l \in LinkIds :
                 links'[l].numAccumulatedDers >= links[l].numAccumulatedDers
       /\ IsForwardStep =>
            /\ \A r \in Refs :
                 /\ network'[r[1]][r[2]].numAccumulatedDers = NodeAt(r).numAccumulatedDers
                 /\ network'[r[1]][r[2]].accInputDer = NodeAt(r).accInputDer
            /\ \A l \in LinkIds :
                 /\ links'[l].numAccumulatedDers = links[l].numAccumulatedDers
                 /\ links'[l].accErrorDer = links[l].accErrorDer
       /\ \A r \in RefsOf(network') : r[1] >= 2 =>
            network'[r[1]][r[2]].numAccumulatedDers = backs'
      ]_vars

\* a second accumulation on top of a non-zero first one
C5_Witness ==
    /\ lastOp = "backProp"
    /\ backs = 2
    /\ \E r \in Refs :
         /\ r[1] >= 2
         /\ NodeAt(r).numAccumulatedDers = 2
         /\ IsNum(NodeAt(r).accInputDer)
         /\ NodeAt(r).inputDer # Zero
         /\ NodeAt(r).accInputDer # NodeAt(r).inputDer
    /\ \E l \in LinkIds :
         /\ links[l].numAccumulatedDers = 2
         /\ IsNum(links[l].accErrorDer)
         /\ links[l].errorDer # Zero
         /\ links[l].accErrorDer # links[l].errorDer

(***************************************************************************)
(* C6.  A dead link is skipped by backProp: its errorDer, accErrorDer and  *)
(* numAccumulatedDers are the same after the call as before.  Its          *)
(* weight * source.output is still a term of its destination's totalInput  *)
(* in every forwardProp.                                                   *)
(***************************************************************************)
C6_DeadLinkAsymmetry ==
    [][/\ IsBackStep =>
            \A l \in LinkIds : links[l].isDead =>
               /\ links'[l].errorDer = links[l].errorDer
               /\ links'[l].accErrorDer = links[l].accErrorDer
               /\ links'[l].numAccumulatedDers = links[l].numAccumulatedDers
       /\ (IsForwardStep /\ lastOp' = "forwardProp") =>
            \A l \in LinkIds : links[l].isDead =>
               network'[links[l].dest[1]][links[l].dest[2]].totalInput =
                 WeightedInput(network', links', links[l].dest)
      ]_vars

\* a link that was dead during a backProp and carries a non-zero term in the
\* forwardProp that followed
C6_Witness ==
    /\ lastOp = "forwardProp"
    /\ \E l \in LinkIds :
         /\ links[l].isDead
         /\ links[l].numAccumulatedDers < NodeAt(links[l].dest).numAccumulatedDers
         /\ IsNum(NodeAt(links[l].source).output)
         /\ Mul(links[l].weight, NodeAt(links[l].source).output) # Zero

(***************************************************************************)
(* C7.  forwardProp and backProp change no weight, bias, isDead flag, nor  *)
(* the structure (layers, ids, activations, link lists, source, dest);     *)
(* forwardProp changes no derivative or accumulator field; backProp        *)
(* changes no output or totalInput.                                        *)
(***************************************************************************)
C7_Frame ==
    [][/\ (IsForwardStep \/ IsBackStep) =>
            /\ Len(network') = Len(network)
            /\ \A k \in 1..Len(network) : Len(network'[k]) = Len(network[k])
            /\ Len(links') = Len(links)
            /\ \A r \in Refs :
                 /\ network'[r[1]][r[2]].id = NodeAt(r).id
                 /\ network'[r[1]][r[2]].bias = NodeAt(r).bias
                 /\ network'[r[1]][r[2]].activation = NodeAt(r).activation
                 /\ network'[r[1]][r[2]].inputLinks = NodeAt(r).inputLinks
                 /\ network'[r[1]][r[2]].outputs = NodeAt(r).outputs
                 /\ network'[r[1]][r[2]].outputLinks = NodeAt(r).outputLinks
            /\ \A l \in LinkIds :
                 /\ links'[l].id = links[l].id
                 /\ links'[l].weight = links[l].weight
                 /\ links'[l].isDead = links[l].isDead
                 /\ links'[l].source = links[l].source
                 /\ links'[l].dest = links[l].dest
                 /\ links'[l].regularization = links[l].regularization
       /\ IsForwardStep =>
            /\ links' = links
            /\ \A r \in Refs :
                 /\ network'[r[1]][r[2]].outputDer = NodeAt(r).outputDer
                 /\ network'[r[1]][r[2]].inputDer = NodeAt(r).inputDer
                 /\ network'[r[1]][r[2]].accInputDer = NodeAt(r).accInputDer
                 /\ network'[r[1]][r[2]].numAccumulatedDers =
                      NodeAt(r).numAccumulatedDers
       /\ IsBackStep =>
            \A r \in Refs :
               /\ network'[r[1]][r[2]].output = NodeAt(r).output
               /\ network'[r[1]][r[2]].totalInput = NodeAt(r).totalInput
      ]_vars

\* a forward pass that ran on a network carrying non-zero derivatives
C7_Witness ==
    /\ lastOp = "forwardProp"
    /\ \E r \in Refs :
         /\ r[1] >= 2
         /\ NodeAt(r).numAccumulatedDers > 0
         /\ IsNum(NodeAt(r).inputDer)
         /\ NodeAt(r).inputDer # Zero
         /\ NodeAt(r).outputDer # Zero
    /\ \E l \in LinkIds : IsNum(links[l].accErrorDer) /\ links[l].accErrorDer # Zero

(***************************************************************************)
(* C8.  After backProp on a network with at least two non-input layers,    *)
(* every hidden node's outputDer is the sum over all its outgoing links of *)
(* weight * dest.inputDer, with the inputDer values of this pass; this     *)
(* holds after any number of earlier passes.                               *)
(***************************************************************************)
C8_HiddenOutputDer ==
    (lastOp = "backProp" /\ Len(network) >= 3) =>
      \A r \in Refs : (r[1] >= 2 /\ r[1] < Len(network)) =>
         NodeAt(r).outputDer = BackSum(network, links, r)

\* a second pass whose derivatives differ from what the first pass left
C8_Witness ==
    /\ lastOp = "backProp"
    /\ Len(network) >= 3
    /\ backs >= 2
    /\ \E r \in Refs :
         /\ r[1] >= 2 /\ r[1] < Len(network)
         /\ Len(NodeAt(r).outputs) = 2
         /\ IsNum(NodeAt(r).outputDer)
         /\ NodeAt(r).outputDer # Zero
         /\ NodeAt(r).accInputDer # Add(NodeAt(r).inputDer, NodeAt(r).inputDer)

(***************************************************************************)
(* C9 as stated.  A backProp call changes no outputDer, inputDer,          *)
(* accInputDer or numAccumulatedDers of an input-layer node, for every     *)
(* network of at least one layer.  Stated for the calls the contract       *)
(* covers, those that directly follow a successful forwardProp.            *)
(***************************************************************************)
C9_Original ==
    [][(IsBackStep /\ lastOp = "forwardProp") =>
         \A i \in 1..Len(network[1]) :
            /\ network'[1][i].outputDer = network[1][i].outputDer
            /\ network'[1][i].inputDer = network[1][i].inputDer
            /\ network'[1][i].accInputDer = network[1][i].accInputDer
            /\ network'[1][i].numAccumulatedDers = network[1][i].numAccumulatedDers
      ]_vars

(***************************************************************************)
(* C9 amended.  A backProp call changes no inputDer, accInputDer or        *)
(* numAccumulatedDers of an input-layer node; it changes no outputDer of   *)
(* an input-layer node either, except that in a network of a single layer  *)
(* node 0, which is then the output node, receives                         *)
(* outputDer = output - target.                                            *)
(***************************************************************************)
C9_InputLayerUntouched ==
    [][IsBackStep =>
         \A i \in 1..Len(network[1]) :
            /\ network'[1][i].inputDer = network[1][i].inputDer
            /\ network'[1][i].accInputDer = network[1][i].accInputDer
            /\ network'[1][i].numAccumulatedDers = network[1][i].numAccumulatedDers
            /\ (Len(network) >= 2 \/ i # 1) =>
                 network'[1][i].outputDer = network[1][i].outputDer
            /\ (Len(network) = 1 /\ i = 1) =>
                 network'[1][i].outputDer = Sub(network[1][i].output, lastTarget')
      ]_vars

\* a backProp that went through two layers of links above an input layer
\* whose nodes fed non-zero derivatives
C9_Witness ==
    /\ lastOp = "backProp"
    /\ Len(network) = 3
    /\ \E r \in Refs : r[1] = 2 /\ IsNum(NodeAt(r).inputDer) /\ NodeAt(r).inputDer # Zero
    /\ \E l \in LinkIds : links[l].source[1] = 1 /\ links[l].weight # Zero
    /\ \A i \in 1..Len(network[1]) : network[1][i].outputDer = Zero

(***************************************************************************)
(* C10.  With pairwise-distinct input ids, no two distinct links of a      *)
(* built network have the same id.                                         *)
(***************************************************************************)
C10_LinkIdsIdentify ==
    Built => \A l1, l2 \in LinkIds : l1 # l2 => links[l1].id # links[l2].id

====
